---- MODULE Spec2Model ----
(***************************************************************************)
(* A model of the numerical kernel of astro-algos: the Julian Day type,    *)
(* the calendar Date conversions, the Easter algorithms and Angle::wrap.   *)
(*                                                                         *)
(* Every operation of the library is a pure function.  The state machine   *)
(* is a client that holds one input (a Date, a bare f64, a year or an      *)
(* angle with two limits), drawn in Init, and applies the library's        *)
(* operations to what it holds, one call per step.                         *)
(***************************************************************************)
EXTENDS Integers, Sequences, FiniteSets

(***************************************************************************)
(* f64 values.  A value is the record [i, hi, lo] standing for             *)
(*      i + hi / 2^20 + lo / 2^40      (i = floor of the value),           *)
(* so every value is a multiple of 2^-40.  Sums are formed exactly and     *)
(* then rounded to the 53 significant bits of an f64 (F64Round), which is  *)
(* what IEEE-754 addition and subtraction do.                              *)
(***************************************************************************)
Limb == 2 ^ 20

R(i, hi, lo) == [i |-> i, hi |-> hi, lo |-> lo]

IntR(n) == R(n, 0, 0)

Zero == IntR(0)

Half == R(0, Limb \div 2, 0)

IsInt(x) == x.hi = 0 /\ x.lo = 0

RNeg(x) ==
    IF IsInt(x) THEN IntR(-x.i)
    ELSE IF x.lo = 0 THEN R(-x.i - 1, Limb - x.hi, 0)
    ELSE R(-x.i - 1, Limb - 1 - x.hi, Limb - x.lo)

RAdd(x, y) ==
    LET lo == x.lo + y.lo
        c1 == lo \div Limb
        hi == x.hi + y.hi + c1
        c2 == hi \div Limb
    IN  R(x.i + y.i + c2, hi % Limb, lo % Limb)

RSub(x, y) == RAdd(x, RNeg(y))

\* f64::INFINITY, the one value that is not a multiple of 2^-40.
Infinity == [inf |-> TRUE]

RLess(x, y) ==
    IF x = Infinity THEN FALSE
    ELSE IF y = Infinity THEN TRUE
    ELSE \/ x.i < y.i
         \/ x.i = y.i /\ x.hi < y.hi
         \/ x.i = y.i /\ x.hi = y.hi /\ x.lo < y.lo

RLeq(x, y) == x = y \/ RLess(x, y)

RAbs(x) == IF x.i < 0 THEN RNeg(x) ELSE x

RECURSIVE Log2(_)
Log2(n) == IF n < 2 THEN 0 ELSE 1 + Log2(n \div 2)

\* The magnitude m >= 0 rounded to 53 significant bits, ties to even.  The
\* unit in the last place of a value in [2^e, 2^(e+1)) is 2^(e-52), which is
\* 2^(e-12) units of 2^-40.
RoundMag(m) ==
    LET e == Log2(m.i)
    IN  IF m.i < 1 \/ e <= 12 THEN m
        ELSE LET s    == 2 ^ (e - 12)
                 q    == m.lo \div s
                 r    == m.lo % s
                 up   == r > s \div 2 \/ (r = s \div 2 /\ q % 2 = 1)
                 lo   == IF up THEN (q + 1) * s ELSE q * s
                 hi   == m.hi + lo \div Limb
             IN  R(m.i + hi \div Limb, hi % Limb, lo % Limb)

F64Round(x) == IF x.i < 0 THEN RNeg(RoundMag(RNeg(x))) ELSE RoundMag(x)

F64Add(x, y) == F64Round(RAdd(x, y))

F64Sub(x, y) == F64Round(RSub(x, y))

\* f64::floor, f64::trunc, f64::fract and f64::round (half away from zero).
Floor(x) == x.i

Trunc(x) == IF x.i < 0 /\ ~IsInt(x) THEN x.i + 1 ELSE x.i

Fract(x) == RSub(x, IntR(Trunc(x)))

Round(x) ==
    IF x.i >= 0 THEN (IF x.hi >= Limb \div 2 THEN x.i + 1 ELSE x.i)
    ELSE -(LET m == RNeg(x) IN IF m.hi >= Limb \div 2 THEN m.i + 1 ELSE m.i)

\* The classes of IEEE-754 values and their sums and differences: a finite
\* value, either infinity, or NaN.  Multiplying or dividing by a positive
\* constant and floor() keep the class of a value.
ClsNeg(x) == IF x = "inf" THEN "-inf" ELSE IF x = "-inf" THEN "inf" ELSE x

ClsAdd(x, y) ==
    IF "nan" \in {x, y} \/ {x, y} = {"inf", "-inf"} THEN "nan"
    ELSE IF "inf" \in {x, y} THEN "inf"
    ELSE IF "-inf" \in {x, y} THEN "-inf"
    ELSE "fin"

ClsSub(x, y) == ClsAdd(x, ClsNeg(y))

\* x < c for a finite constant c, where x is not finite: NaN is less than
\* nothing.
ClsLess(x) == x = "-inf"

\* `as i32` on an f64 that is not finite: NaN gives 0, an infinity saturates.
ClsAsI32(x) ==
    IF x = "nan" THEN 0 ELSE IF x = "inf" THEN 2147483647 ELSE -2147483647 - 1

\* Rust's integer / and % truncate toward zero.
DivT(a, b) == IF a >= 0 THEN a \div b ELSE -((-a) \div b)

RemT(a, b) == LET r == a % b IN IF a < 0 /\ r # 0 THEN r - b ELSE r

\* `as u8` and `as i32` on an integral f64 saturate.
AsU8(n) == IF n < 0 THEN 0 ELSE IF n > 255 THEN 255 ELSE n

(***************************************************************************)
(* time::JD                                                                *)
(***************************************************************************)
NoJD == IntR(-1)

\* A JD::from that clamps a negative value to zero instead of failing.
JD_from_clamping(item) ==
    IF RLeq(Zero, item) THEN [panic |-> FALSE, jd |-> item]
    ELSE [panic |-> FALSE, jd |-> Zero]

\* impl From<f64> for JD: assert!(item >= 0.0); JD(item)
JD_from(item) ==
    IF RLeq(Zero, item) THEN [panic |-> FALSE, jd |-> item]
    ELSE [panic |-> TRUE, jd |-> NoJD]

(***************************************************************************)
(* time::date::Date                                                        *)
(***************************************************************************)
Calendars == {"Julian", "Gregorian"}

Date(cal, year, month, day, fraction) ==
    [cal |-> cal, year |-> year, month |-> month, day |-> day, fraction |-> fraction]

NoDate == Date("none", 0, 0, 0, Zero)

\* A Month::from whose assertion is gone: the fallback arm's January is
\* returned for a number that names no month.
Month_from_defaulting(item) ==
    IF item \in 1..12 THEN [panic |-> FALSE, month |-> item]
    ELSE [panic |-> FALSE, month |-> 1]

\* impl From<i32> for Month: the numbers 1..12 name a month, anything else
\* fails the assertion.
Month_from(item) ==
    IF item \in 1..12 THEN [panic |-> FALSE, month |-> item]
    ELSE [panic |-> TRUE, month |-> 0]

\* floor(30.6001 * k) for the small integers k the code uses
Floor306001(k) == (306001 * k) \div 10000

\* A correction term applied whatever the calendar.
to_jd_b_any_calendar(cal, a) == 2 - a + (a \div 4)

\* let b = match self.cal { Julian => 0.0, Gregorian => 2.0 - a + (a / 4.0).floor() }
to_jd_b(cal, a) == IF cal = "Julian" THEN 0 ELSE 2 - a + (a \div 4)

\* A to_jd that counts from midnight: - 1524.0 where the code has - 1524.5.
to_jd_value_from_midnight(self) ==
    LET y == IF self.month \in {1, 2} THEN self.year - 1 ELSE self.year
        m == IF self.month \in {1, 2} THEN self.month + 12 ELSE self.month
        a == y \div 100
        b == to_jd_b(self.cal, a)
        whole == (1461 * (y + 4716)) \div 4 + Floor306001(m + 1) + self.day
    IN  F64Sub(F64Add(F64Add(IntR(whole), self.fraction), IntR(b)), IntR(1524))

\* The f64 handed to JD::from by Date::to_jd.
to_jd_value(self) ==
    LET y == IF self.month \in {1, 2} THEN self.year - 1 ELSE self.year
        m == IF self.month \in {1, 2} THEN self.month + 12 ELSE self.month
        a == y \div 100
        b == to_jd_b(self.cal, a)
        whole == (1461 * (y + 4716)) \div 4 + Floor306001(m + 1) + self.day
    IN  F64Sub(F64Add(F64Add(IntR(whole), self.fraction), IntR(b)),
               R(1524, Limb \div 2, 0))

to_jd(self) == JD_from(to_jd_value(self))

\* A Gregorian branch that leaves out the + 1.0.
from_jd_a_without_one(z) ==
    IF z < 2299161 THEN z
    ELSE LET alpha == (4 * z - 7468865) \div 146097
         IN  z + alpha - (alpha \div 4)

\* let a = if z < 2299_161.0 { z } else { ... z + 1.0 + alpha - (alpha / 4.0).floor() }
from_jd_a(z) ==
    IF z < 2299161 THEN z
    ELSE LET alpha == (4 * z - 7468865) \div 146097
         IN  z + 1 + alpha - (alpha \div 4)

\* Date::from_jd of JD(f64::INFINITY), followed through the classes of its
\* intermediate values up to Month::from(month), the first call that fails.
from_jd_infinity ==
    LET t     == ClsAdd("inf", "fin")
        z     == t
        f     == ClsSub(t, z)
        a     == IF ClsLess(z) THEN z
                 ELSE LET alpha == ClsSub(z, "fin")
                      IN  ClsSub(ClsAdd(ClsAdd(z, "fin"), alpha), alpha)
        b     == ClsAdd(a, "fin")
        c     == ClsSub(b, "fin")
        d     == c
        e     == ClsSub(b, d)
        month == IF ClsLess(e) THEN ClsAsI32(ClsSub(e, "fin"))
                 ELSE ClsAsI32(ClsSub(e, "fin"))
        mm    == Month_from(month)
    IN  IF mm.panic THEN [panic |-> TRUE, date |-> NoDate]
        ELSE [panic |-> FALSE,
              date |-> Date("Gregorian", ClsAsI32(c), mm.month, 0, Zero)]

\* Date::from_jd.  The divisions whose quotient the code floors are formed
\* over the integers: (z - 1867216.25) / 36524.25 = (4z - 7468865) / 146097
\* and (b - 122.1) / 365.25 = (20b - 2442) / 7305.
from_jd_finite(jd) ==
    LET t     == F64Add(jd, Half)
        z     == Floor(t)
        f     == RSub(t, IntR(z))
        a     == from_jd_a(z)
        b     == a + 1524
        c     == (20 * b - 2442) \div 7305
        d     == (1461 * c) \div 4
        e     == (10000 * (b - d)) \div 306001
        day_fraction == F64Add(IntR(b - d - Floor306001(e)), f)
        day   == Trunc(day_fraction)
        fraction == Fract(day_fraction)
        month == IF e < 14 THEN e - 1 ELSE e - 13
        year  == IF month > 2 THEN c - 4716 ELSE c - 4715
        cal   == IF RLeq(R(2299068, Limb \div 2, 0), jd) THEN "Gregorian" ELSE "Julian"
        mm    == Month_from(month)
    IN  IF mm.panic THEN [panic |-> TRUE, date |-> NoDate]
        ELSE [panic |-> FALSE, date |-> Date(cal, year, mm.month, AsU8(day), fraction)]

from_jd(jd) == IF jd = Infinity THEN from_jd_infinity ELSE from_jd_finite(jd)

\* tests::fraction_eq: (frac1 - frac2).abs() <= min_diff, where min_diff is
\* 0.000001 * 60.0 * 60.0 * 24.0 = 0.0864 = 54 / 625 of a day.
fraction_eq(frac1, frac2) ==
    LET d == RAbs(RSub(frac1, frac2))
        x == d.hi * 625 + (d.lo * 625) \div Limb
        r == (d.lo * 625) % Limb
    IN  d.i = 0 /\ (x < 54 * Limb \/ (x = 54 * Limb /\ r = 0))

\* impl From<i32> for DayOfWeek: 0 = Sunday .. 6 = Saturday.
DayOfWeek_from(item) ==
    IF item \in 0..6 THEN [panic |-> FALSE, dow |-> item]
    ELSE [panic |-> TRUE, dow |-> -1]

\* A get_day_of_week anchored half a day off: + 0.5 where the code has + 1.5.
get_day_of_week_monday_first(self) ==
    LET j == to_jd(self)
    IN  IF j.panic THEN [panic |-> TRUE, dow |-> -1]
        ELSE LET jd == F64Sub(IntR(Round(j.jd)), Half)
                 t  == F64Add(jd, Half)
                 day_num == Round(R(RemT(t.i, 7), t.hi, t.lo))
             IN  DayOfWeek_from(day_num)

\* Date::get_day_of_week
get_day_of_week(self) ==
    LET j == to_jd(self)
    IN  IF j.panic THEN [panic |-> TRUE, dow |-> -1]
        ELSE LET jd == F64Sub(IntR(Round(j.jd)), Half)
                 t  == F64Add(jd, R(1, Limb \div 2, 0))
                 day_num == Round(R(RemT(t.i, 7), t.hi, t.lo))
             IN  DayOfWeek_from(day_num)

\* A get_day_of_year with the leap years of the Gregorian reform: centuries
\* are leap only when divisible by 400.
get_day_of_year_century_rule(self) ==
    LET leap_year == IF self.cal = "Julian" THEN RemT(self.year, 4) = 0
                     ELSE /\ RemT(self.year, 4) = 0
                          /\ (RemT(self.year, 100) # 0 \/ RemT(self.year, 400) = 0)
        k == IF leap_year THEN 1 ELSE 2
        m == self.month
        d == self.day
    IN  (275 * m) \div 9 - k * ((m + 9) \div 12) + d - 30

\* Date::get_day_of_year
get_day_of_year(self) ==
    LET leap_year == IF self.cal = "Julian" THEN RemT(self.year, 4) = 0
                     ELSE RemT(self.year, 4) = 0 /\ ~(RemT(self.year, 400) = 0)
        k == IF leap_year THEN 1 ELSE 2
        m == self.month
        d == self.day
    IN  (275 * m) \div 9 - k * ((m + 9) \div 12) + d - 30

\* The epact correction g taken as (b - f) / 3, without the + 1.
find_gregorian_easter_g_slip(year) ==
    LET a == RemT(year, 19)
        b == DivT(year, 100)
        c == RemT(year, 100)
        d == DivT(b, 4)
        e == RemT(b, 4)
        f == DivT(b + 8, 25)
        g == DivT(b - f, 3)
        h == RemT(19 * a + b - d - g + 15, 30)
        i == DivT(c, 4)
        k == RemT(c, 4)
        l == RemT(32 + 2 * e + 2 * i - h - k, 7)
        m == DivT(a + 11 * h + 22 * l, 451)
        n == DivT(h + l - 7 * m + 114, 31)
        p == RemT(h + l - 7 * m + 114, 31)
        mm == Month_from(n)
    IN  IF mm.panic THEN [panic |-> TRUE, date |-> NoDate]
        ELSE [panic |-> FALSE,
              date |-> Date("Gregorian", year, mm.month, (p + 1) % 256, Zero)]

\* find_gregorian_easter
find_gregorian_easter(year) ==
    LET a == RemT(year, 19)
        b == DivT(year, 100)
        c == RemT(year, 100)
        d == DivT(b, 4)
        e == RemT(b, 4)
        f == DivT(b + 8, 25)
        g == DivT(b - f + 1, 3)
        h == RemT(19 * a + b - d - g + 15, 30)
        i == DivT(c, 4)
        k == RemT(c, 4)
        l == RemT(32 + 2 * e + 2 * i - h - k, 7)
        m == DivT(a + 11 * h + 22 * l, 451)
        n == DivT(h + l - 7 * m + 114, 31)
        p == RemT(h + l - 7 * m + 114, 31)
        mm == Month_from(n)
    IN  IF mm.panic THEN [panic |-> TRUE, date |-> NoDate]
        ELSE [panic |-> FALSE,
              date |-> Date("Gregorian", year, mm.month, (p + 1) % 256, Zero)]

\* A Julian Easter with a lunar cycle of 18 years for the 19 of the code.
find_julian_easter_short_cycle(year) ==
    LET a == RemT(year, 4)
        b == RemT(year, 7)
        c == RemT(year, 18)
        d == RemT(19 * c + 15, 30)
        e == RemT(2 * a + 4 * b - d + 34, 7)
        f == DivT(d + e + 114, 31)
        g == RemT(d + e + 114, 31)
        mm == Month_from(f)
    IN  IF mm.panic THEN [panic |-> TRUE, date |-> NoDate]
        ELSE [panic |-> FALSE,
              date |-> Date("Julian", year, mm.month, (g + 1) % 256, Zero)]

\* A Julian Easter whose weekday term is off by one: + 33 for the + 34 of
\* the code.
find_julian_easter_weekday_slip(year) ==
    LET a == RemT(year, 4)
        b == RemT(year, 7)
        c == RemT(year, 19)
        d == RemT(19 * c + 15, 30)
        e == RemT(2 * a + 4 * b - d + 33, 7)
        f == DivT(d + e + 114, 31)
        g == RemT(d + e + 114, 31)
        mm == Month_from(f)
    IN  IF mm.panic THEN [panic |-> TRUE, date |-> NoDate]
        ELSE [panic |-> FALSE,
              date |-> Date("Julian", year, mm.month, (g + 1) % 256, Zero)]

\* find_julian_easter
find_julian_easter(year) ==
    LET a == RemT(year, 4)
        b == RemT(year, 7)
        c == RemT(year, 19)
        d == RemT(19 * c + 15, 30)
        e == RemT(2 * a + 4 * b - d + 34, 7)
        f == DivT(d + e + 114, 31)
        g == RemT(d + e + 114, 31)
        mm == Month_from(f)
    IN  IF mm.panic THEN [panic |-> TRUE, date |-> NoDate]
        ELSE [panic |-> FALSE,
              date |-> Date("Julian", year, mm.month, (g + 1) % 256, Zero)]

\* A dispatch that takes 1583 itself for a Julian year.
find_easter_by_year_after_1583(year) ==
    IF year > 1583 THEN find_gregorian_easter(year) ELSE find_julian_easter(year)

\* find_easter_by_year
find_easter_by_year(year) ==
    IF year >= 1583 THEN find_gregorian_easter(year) ELSE find_julian_easter(year)

(***************************************************************************)
(* The inputs the client draws.                                            *)
(***************************************************************************)
\* Years whose every day is tried as a Date: the year of the epoch, the year
\* of the calendar change, two century years, and YearWindow years from 2019.
YearWindow == 1

FullYears == {-4712, 1582, 1900, 2000} \cup (2019 .. (2019 + YearWindow - 1))

\* The days of the library's own examples (tests of time::date).
ExampleDays ==
    { <<"Gregorian", 1957, 10, 4>>, <<"Julian", 333, 1, 27>>,
      <<"Gregorian", 1600, 12, 31>>, <<"Julian", -1001, 8, 17>>,
      <<"Gregorian", 1954, 6, 30>>, <<"Gregorian", 1978, 11, 14>>,
      <<"Gregorian", 1988, 4, 22>> }

\* The value of the decimal fraction 0.d1d2...dn, cut to a multiple of 2^-40.
RECURSIVE DecFrac(_)
DecFrac(ds) ==
    IF ds = << >> THEN Zero
    ELSE LET x == DecFrac(Tail(ds))
             t == Head(ds) * Limb + x.hi
         IN  R(0, t \div 10, ((t % 10) * Limb + x.lo) \div 10)

\* 1 - 2^-j, for 1 <= j <= 40
OneMinus(j) ==
    IF j <= 20 THEN R(0, Limb - 2 ^ (20 - j), 0)
    ELSE R(0, Limb - 1, Limb - 2 ^ (40 - j))

\* Times of day: those of the library's tests, and the last instants of a day.
Fractions ==
    { Zero, Half, DecFrac(<<4, 9, 9, 9, 9, 9, 9>>), DecFrac(<<9>>),
      DecFrac(<<9, 9, 9, 9, 9, 9, 9, 9>>), OneMinus(31), OneMinus(32), OneMinus(40) }

\* The length of a month, by which the client builds only dates that exist.
IsLeap(cal, year) ==
    IF cal = "Julian" THEN year % 4 = 0
    ELSE year % 4 = 0 /\ (year % 100 # 0 \/ year % 400 = 0)

MonthLen(cal, year, month) ==
    IF month = 2 THEN (IF IsLeap(cal, year) THEN 29 ELSE 28)
    ELSE IF month \in {4, 6, 9, 11} THEN 30 ELSE 31

\* The days next to the epoch of the Julian Day count, noon of Julian
\* -4712-01-01, which is Gregorian -4713-11-24.
EpochDays ==
    { <<"Julian", -4713, 12, 30>>, <<"Julian", -4713, 12, 31>>,
      <<"Gregorian", -4713, 11, 23>>, <<"Gregorian", -4713, 11, 24>>,
      <<"Gregorian", -4713, 11, 25>> }

FullDays ==
    { t \in Calendars \X FullYears \X (1..12) \X (1..31) :
        t[4] <= MonthLen(t[1], t[2], t[3]) }

ValidDates ==
    { Date(t[1], t[2], t[3], t[4], fr) : t \in FullDays \cup ExampleDays \cup EpochDays, fr \in Fractions }

\* Bare f64 values offered to JD::from: whole and half days RawSpan either side
\* of the epoch, of the two thresholds of from_jd and of the examples, and the
\* instants just before them.
RawSpan == 2

RawAnchors == {0, 1842713, 2299068, 2299160, 2436116, 2451545}

\* A run of RunLength days from the first day of a Julian century year, of
\* 1582, of 1900 and of 2000.
RunLength == 366

RunStarts == {2268932, 2298883, 2415020, 2451544}

RunDays == { a + k : a \in RunStarts, k \in 0..RunLength }

RawDays == { a + k : a \in RawAnchors, k \in (-RawSpan)..RawSpan }

RawValues ==
    { F64Round(R(n, f.hi, f.lo)) :
        n \in RawDays \cup RunDays, f \in {Zero, Half, OneMinus(31), OneMinus(40)} }
      \cup { Infinity }

\* Years offered to the Easter functions.
\* `as u8` on an i32 keeps the low eight bits.
I32AsU8(n) == n % 256

\* One million: q of find_gregorian_passover is held as Mega * Mega * q, an
\* integer since its constants have twelve decimals, in two limbs of six
\* decimals each.
Mega == 1000000

\* q of find_gregorian_passover as [h, l] with q = (h + l / Mega) / Mega and
\* 0 <= l < Mega:
\*   -1.904412361576 + 1.554241796621 a + 0.25 b - 0.003177794022 x + s
passover_q(x, a, b, s) ==
    LET xk == x \div 1000
        xr == x % 1000
        h  == -1904412 + 1554241 * a + 250000 * b - (3177 * x + 794 * xk) + Mega * s
        l  == -361576 + 796621 * a - (794022 * xr + 22000 * xk)
    IN  [h |-> h + l \div Mega, l |-> l % Mega]

\* q.trunc() as i32
passover_q_int(q) ==
    IF q.h >= 0 THEN q.h \div Mega
    ELSE -((IF q.l = 0 THEN -q.h ELSE -q.h - 1) \div Mega)

\* r = q - q.trunc(), as [neg, h, l] with |r| = (h + l / Mega) / Mega
passover_r(q) ==
    IF q.h >= 0 THEN [neg |-> FALSE, h |-> q.h % Mega, l |-> q.l]
    ELSE LET mh == IF q.l = 0 THEN -q.h ELSE -q.h - 1
             ml == IF q.l = 0 THEN 0 ELSE Mega - q.l
         IN  [neg |-> mh % Mega # 0 \/ ml # 0, h |-> mh % Mega, l |-> ml]

\* r > 0.632870370
passover_r_gt(r) ==
    ~r.neg /\ (r.h > 632870 \/ (r.h = 632870 /\ r.l > 370000))

\* r >= 0.897723765
passover_r_ge(r) ==
    ~r.neg /\ (r.h > 897723 \/ (r.h = 897723 /\ r.l >= 765000))

\* d of find_gregorian_passover: the day counted from the last of February
passover_d(x) ==
    LET c == DivT(x, 100)
        s == DivT(3 * c - 5, 4)
        a == RemT(12 * x + 12, 19)
        b == RemT(x, 4)
        q == passover_q(x, a, b, s)
        q_int == passover_q_int(q)
        j == RemT(q_int + 3 * x + 5 * b + 2 - s, 7)
        r == passover_r(q)
    IN  IF j = 2 \/ j = 4 \/ j = 6 THEN q_int + 23
        ELSE IF j = 1 /\ a > 6 /\ passover_r_gt(r) THEN q_int + 24
        ELSE IF j = 0 /\ a > 11 /\ passover_r_ge(r) THEN q_int + 23
        ELSE q_int + 22

\* find_gregorian_passover
find_gregorian_passover(greg_year) ==
    LET d == passover_d(greg_year)
    IN  IF d > 31 THEN Date("Gregorian", greg_year, 4, I32AsU8(d - 31), Zero)
        ELSE Date("Gregorian", greg_year, 3, I32AsU8(d), Zero)

YearsBC == 30

LastYear == 2300

Years == (-YearsBC)..LastYear

\* The i32 values handed to Month::from and DayOfWeek::from: the numbers
\* that name a month or a weekday and IntSpan more on either side.
IntSpan == 2

Ints == (-IntSpan)..(12 + IntSpan)

(***************************************************************************)
(* The client.  calls records what it has done: calls[1] is the value it   *)
(* built, every later entry one call of the library on the value before    *)
(* it, with the call's result or its panic.                                *)
(***************************************************************************)
VARIABLES calls, pc, self, low_limit, high_limit, range, angle0, loc

vars == <<calls, pc, self, low_limit, high_limit, range, angle0, loc>>

wrapVars == <<pc, self, low_limit, high_limit, range, angle0>>

Call(op, date, jd, n, panic) ==
    [op |-> op, date |-> date, jd |-> jd, n |-> n, panic |-> panic]

\* Calls in one run of the client
MaxCalls == 3

Last == calls[Len(calls)]

Ops == [k \in 1..Len(calls) |-> calls[k].op]

HoldsDate == ~Last.panic /\ Last.op \in {"Date", "from_jd", "find_easter_by_year"}

HoldsJD == ~Last.panic /\ Last.op \in {"JD::from", "to_jd"}

CanCall == Len(calls) <= MaxCalls

\* No call of Planet::get_location is under way.
NoLocation == [stage |-> "none"]

\* No call of Angle::wrap is under way.
WrapIdle ==
    /\ pc = "idle" /\ self = 0 /\ low_limit = 0 /\ high_limit = 0
    /\ range = 0 /\ angle0 = 0

InitCalls ==
    \/ \E dt \in ValidDates : calls = << Call("Date", dt, NoJD, -1, FALSE) >>
    \/ \E x \in RawValues : calls = << Call("f64", NoDate, x, -1, FALSE) >>
    \/ \E y \in Years : calls = << Call("Year", NoDate, NoJD, y, FALSE) >>
    \/ \E n \in Ints : calls = << Call("i32", NoDate, NoJD, n, FALSE) >>

Init == InitCalls /\ WrapIdle /\ loc = NoLocation

\* JD::from(item)
JDFrom ==
    /\ Last.op = "f64" /\ CanCall
    /\ LET r == JD_from(Last.jd)
       IN  calls' = Append(calls, Call("JD::from", NoDate, r.jd, -1, r.panic))

\* date.to_jd()
ToJd ==
    /\ HoldsDate /\ CanCall
    /\ LET r == to_jd(Last.date)
       IN  calls' = Append(calls, Call("to_jd", NoDate, r.jd, -1, r.panic))

\* Date::from_jd(jd)
FromJd ==
    /\ HoldsJD /\ CanCall
    /\ LET r == from_jd(Last.jd)
       IN  calls' = Append(calls, Call("from_jd", r.date, NoJD, -1, r.panic))

\* date.get_day_of_week()
GetDayOfWeek ==
    /\ HoldsDate /\ CanCall
    /\ LET r == get_day_of_week(Last.date)
       IN  calls' = Append(calls, Call("get_day_of_week", NoDate, NoJD, r.dow, r.panic))

\* find_easter_by_year(year)
FindEasterByYear ==
    /\ Last.op = "Year" /\ CanCall
    /\ LET r == find_easter_by_year(Last.n)
       IN  calls' = Append(calls, Call("find_easter_by_year", r.date, NoJD, -1, r.panic))

\* date.get_day_of_year()
GetDayOfYear ==
    /\ HoldsDate /\ CanCall
    /\ calls' = Append(calls, Call("get_day_of_year", NoDate, NoJD,
                                   get_day_of_year(Last.date), FALSE))

\* Month::from(item)
MonthFrom ==
    /\ Last.op = "i32" /\ CanCall
    /\ LET r == Month_from(Last.n)
       IN  calls' = Append(calls, Call("Month::from", NoDate, NoJD, r.month, r.panic))

\* DayOfWeek::from(item)
DayOfWeekFrom ==
    /\ Last.op = "i32" /\ CanCall
    /\ LET r == DayOfWeek_from(Last.n)
       IN  calls' = Append(calls, Call("DayOfWeek::from", NoDate, NoJD, r.dow, r.panic))

\* find_gregorian_passover(year)
FindGregorianPassover ==
    /\ Last.op = "Year" /\ CanCall
    /\ calls' = Append(calls, Call("find_gregorian_passover",
                                   find_gregorian_passover(Last.n), NoJD, -1, FALSE))

Next ==
    \/ JDFrom /\ UNCHANGED <<wrapVars, loc>>
    \/ ToJd /\ UNCHANGED <<wrapVars, loc>>
    \/ FromJd /\ UNCHANGED <<wrapVars, loc>>
    \/ GetDayOfWeek /\ UNCHANGED <<wrapVars, loc>>
    \/ FindEasterByYear /\ UNCHANGED <<wrapVars, loc>>
    \/ FindGregorianPassover /\ UNCHANGED <<wrapVars, loc>>
    \/ GetDayOfYear /\ UNCHANGED <<wrapVars, loc>>
    \/ MonthFrom /\ UNCHANGED <<wrapVars, loc>>
    \/ DayOfWeekFrom /\ UNCHANGED <<wrapVars, loc>>

Spec == Init /\ [][Next]_vars

(***************************************************************************)
(* angle::Angle::wrap.  An Angle is a whole number of ticks of 10 degrees; *)
(* on such values the additions, subtractions and comparisons of wrap are  *)
(* exact.  One step of the machine is the assertion, one pass of a loop or *)
(* the return.                                                             *)
(***************************************************************************)
\* Angles handed to wrap: -MaxAngle..MaxAngle ticks.
MaxAngle == 40

\* Limits handed to wrap: the multiples of 90 degrees up to LimitSpan of them.
LimitSpan == 4

Limits == { 9 * k : k \in (-LimitSpan)..LimitSpan }

\* A range that counts both limits, as a count of whole steps would.
WrapRange_inclusive(low, high) == high - low + 1

\* let range = high_limit - low_limit
WrapRange(low, high) == high - low

\* An assertion that lets equal limits through.
WrapPrecondition_allows_equal(low, high) == high >= low

\* assert!(high_limit > low_limit)
WrapPrecondition(low, high) == high > low

InitWrap ==
    /\ calls = << Call("none", NoDate, NoJD, -1, FALSE) >>
    /\ pc = "assert"
    /\ angle0 \in (-MaxAngle)..MaxAngle
    /\ self = angle0
    /\ low_limit \in Limits
    /\ high_limit \in Limits
    /\ range = 0
    /\ loc = NoLocation

WrapAssert ==
    /\ pc = "assert"
    /\ WrapPrecondition(low_limit, high_limit)
    /\ range' = WrapRange(low_limit, high_limit)
    /\ pc' = "sub_loop"
    /\ UNCHANGED <<calls, self, low_limit, high_limit, angle0, loc>>

WrapPanic ==
    /\ pc = "assert"
    /\ ~WrapPrecondition(low_limit, high_limit)
    /\ pc' = "panic"
    /\ UNCHANGED <<calls, self, low_limit, high_limit, range, angle0, loc>>

\* while self > *high_limit { self -= range; }
WrapSub ==
    /\ pc = "sub_loop"
    /\ self > high_limit
    /\ self' = self - range
    /\ UNCHANGED <<calls, pc, low_limit, high_limit, range, angle0, loc>>

WrapSubDone ==
    /\ pc = "sub_loop"
    /\ ~(self > high_limit)
    /\ pc' = "add_loop"
    /\ UNCHANGED <<calls, self, low_limit, high_limit, range, angle0, loc>>

\* while self < *low_limit { self += range; }
WrapAdd ==
    /\ pc = "add_loop"
    /\ self < low_limit
    /\ self' = self + range
    /\ UNCHANGED <<calls, pc, low_limit, high_limit, range, angle0, loc>>

WrapReturn ==
    /\ pc = "add_loop"
    /\ ~(self < low_limit)
    /\ pc' = "return"
    /\ UNCHANGED <<calls, self, low_limit, high_limit, range, angle0, loc>>

NextWrap ==
    \/ WrapAssert
    \/ WrapPanic
    \/ WrapSub
    \/ WrapSubDone
    \/ WrapAdd
    \/ WrapReturn

SpecAngle == InitWrap /\ [][NextWrap]_vars

(***************************************************************************)
(* planets::Planet::get_location.  The longitude and latitude sums are     *)
(* whole ticks of 10 degrees, as the angles of wrap; the radius sum is a   *)
(* whole number of the same size.  The argument of a cosine is a whole     *)
(* number of quarter turns, where the cosine is 1, 0 or -1, and the time   *)
(* tau a whole number of Julian millennia from J2000.0: on such values the *)
(* f64 products and sums of sum_terms are exact.                           *)
(***************************************************************************)
Planets ==
    {"Mercury", "Venus", "Earth", "Mars", "Jupiter", "Saturn", "Uranus", "Neptune"}

PlanetModules ==
    {"mercury", "venus", "earth", "mars", "jupiter", "saturn", "uranus", "neptune"}

\* The place of a planet's module in the order from the Sun.
ModuleNumber(module) ==
    CASE module = "mercury" -> 1 [] module = "venus" -> 2 [] module = "earth" -> 3
      [] module = "mars" -> 4 [] module = "jupiter" -> 5 [] module = "saturn" -> 6
      [] module = "uranus" -> 7 [] module = "neptune" -> 8

\* The coefficient tables of a planet's module: for each of L, B and R the
\* term-sets of the powers of tau in order, each a list of triples
\* <<amplitude, phase, frequency>>.  Stand-ins for the library's tables, with
\* up to six term-sets, some of them empty, and different for every planet.
LTERMS(module) ==
    LET i == ModuleNumber(module)
    IN  << << <<5 * i - 5, 0, 0>>, <<3, 1, i>> >>,
           << <<45 - 5 * i, 0, 0>>, <<1, 0, 2>> >>,
           << <<i, 2, 1>> >>,
           << <<1, 0, 0>> >>,
           << >>,
           << <<1, i, 1>> >> >>

BTERMS(module) ==
    LET i == ModuleNumber(module)
    IN  << << <<i - 4, 0, 0>>, <<2, 0, 1>> >>,
           << <<1, 1, i>> >>,
           << >>,
           << <<1, 0, 0>> >>,
           << >> >>

RTERMS(module) ==
    LET i == ModuleNumber(module)
    IN  << << <<10 * i, 0, 0>>, <<1, 0, i>> >>,
           << <<1, 2, 0>> >>,
           << <<1, 1, 1>> >>,
           << >>,
           << >>,
           << >> >>

\* f64::cos of q quarter turns
cos4(q) == CASE q % 4 = 0 -> 1 [] q % 4 = 1 -> 0 [] q % 4 = 2 -> -1 [] q % 4 = 3 -> 0

\* f64::powi
RECURSIVE powi(_, _)
powi(x, n) == IF n = 0 THEN 1 ELSE x * powi(x, n - 1)

\* Iterator::sum over a sequence of numbers
RECURSIVE SumSeq(_)
SumSeq(s) == IF s = << >> THEN 0 ELSE Head(s) + SumSeq(Tail(s))

\* The least of two numbers: zip stops at the shorter of its two iterators.
Min(a, b) == IF a < b THEN a ELSE b

\* A pairing of the term-sets with the powers 1..6 instead of 0..5.
sum_terms_from_power_one(terms, tau) ==
    SumSeq([k \in 1..Min(Len(terms), 6) |->
        SumSeq([j \in 1..Len(terms[k]) |->
            terms[k][j][1] * cos4(terms[k][j][2] + terms[k][j][3] * tau)
                * powi(tau, k)])])

\* fn sum_terms: terms.iter().zip(0..6) pairs the k-th term-set (k = 1, 2, ..)
\* with the power k - 1 and stops after six; every triple gives
\* a * (b + c * tau).cos() * tau.powi(power).
sum_terms(terms, tau) ==
    SumSeq([k \in 1..Min(Len(terms), 6) |->
        SumSeq([j \in 1..Len(terms[k]) |->
            terms[k][j][1] * cos4(terms[k][j][2] + terms[k][j][3] * tau)
                * powi(tau, k - 1)])])

\* let (l_terms, b_terms, r_terms) = match self { ... }
get_location_terms(planet) ==
    LET module ==
            CASE planet = "Mercury" -> "mercury" [] planet = "Venus" -> "venus"
              [] planet = "Earth" -> "earth" [] planet = "Mars" -> "mars"
              [] planet = "Jupiter" -> "jupiter" [] planet = "Saturn" -> "saturn"
              [] planet = "Uranus" -> "uranus" [] planet = "Neptune" -> "neptune"
    IN  [l |-> LTERMS(module), b |-> BTERMS(module), r |-> RTERMS(module)]

\* let tau = (t.to_f64() - 2451_545.0) / 365_250.0, for a t that is a whole
\* number of millennia from J2000.0
get_location_tau(t) == (t.i - 2451545) \div 365250

\* Moments handed to get_location: the millennia from the first one after the
\* epoch of the Julian Day (tau = -6) to MaxTau millennia after J2000.0.
MaxTau == 4

FirstTau == -(2451545 \div 365250)

PlanetJDs == { IntR(2451545 + 365250 * k) : k \in FirstTau..MaxTau }

\* The limits of the two wraps, in ticks: 0 and 360 degrees, -90 and 90 degrees.
LongitudeLimits == [low |-> 0, high |-> 36]

LatitudeLimits == [low |-> -9, high |-> 9]

InitPlanet ==
    /\ calls = << Call("none", NoDate, NoJD, -1, FALSE) >>
    /\ WrapIdle
    /\ \E planet \in Planets, t \in PlanetJDs :
          loc = [stage |-> "call", planet |-> planet, t |-> t, tau |-> 0,
                 l |-> 0, b |-> 0, r |-> 0,
                 longitude |-> 0, latitude |-> 0, radius |-> 0]

\* get_location up to the first call of wrap: tau, the three sums, and
\* Angle::from_radians(l).wrap(0 degrees, 360 degrees) entered.
GetLocationSums ==
    /\ loc.stage = "call"
    /\ LET tau   == get_location_tau(loc.t)
           terms == get_location_terms(loc.planet)
           l     == sum_terms(terms.l, tau)
           b     == sum_terms(terms.b, tau)
           r     == sum_terms(terms.r, tau)
       IN  /\ loc' = [loc EXCEPT !.stage = "longitude", !.tau = tau,
                                 !.l = l, !.b = b, !.r = r]
           /\ self' = l /\ angle0' = l
    /\ low_limit' = LongitudeLimits.low /\ high_limit' = LongitudeLimits.high
    /\ range' = 0 /\ pc' = "assert"
    /\ UNCHANGED calls

\* The wrap of the longitude has returned: the wrap of the latitude,
\* Angle::from_radians(b).wrap(-90 degrees, 90 degrees), is entered.
GetLocationLatitude ==
    /\ loc.stage = "longitude" /\ pc = "return"
    /\ loc' = [loc EXCEPT !.stage = "latitude", !.longitude = self]
    /\ self' = loc.b /\ angle0' = loc.b
    /\ low_limit' = LatitudeLimits.low /\ high_limit' = LatitudeLimits.high
    /\ range' = 0 /\ pc' = "assert"
    /\ UNCHANGED calls

\* The wrap of the latitude has returned: the HeliocentricSpherical is built,
\* with radius: r.
GetLocationReturn ==
    /\ loc.stage = "latitude" /\ pc = "return"
    /\ loc' = [loc EXCEPT !.stage = "done", !.latitude = self, !.radius = loc.r]
    /\ pc' = "idle"
    /\ UNCHANGED <<calls, self, low_limit, high_limit, range, angle0>>

NextPlanet ==
    \/ GetLocationSums
    \/ WrapAssert
    \/ WrapSub
    \/ WrapSubDone
    \/ WrapAdd
    \/ WrapReturn
    \/ GetLocationLatitude
    \/ GetLocationReturn

SpecPlanet == InitPlanet /\ [][NextPlanet]_vars

(***************************************************************************)
(* angle::DegreesMinutesSeconds, angle::HoursMinutesSeconds and the        *)
(* inverse trigonometric constructors.  An Angle is held by its measure in *)
(* degrees, sign and magnitude apart as in an f64: the record              *)
(*      [nan, neg, w, f]   stands for   (-1)^neg * (w + f / DegDen)        *)
(* degrees, or for not-a-number when nan is set.  The seconds of a         *)
(* DegreesMinutesSeconds or HoursMinutesSeconds are counted in 1 / DegDen  *)
(* of a second.  DegDen is a multiple of 3600, so the quotients by 60, by  *)
(* 3600 and by 15 that the conversions form are exact on the values used.  *)
(***************************************************************************)
DegDen == 9000000

Deg(neg, w, f) == [nan |-> FALSE, neg |-> neg, w |-> w, f |-> f]

NaN == [nan |-> TRUE, neg |-> FALSE, w |-> 0, f |-> 0]

\* The angle of whole degrees plus part / DegDen degrees (part of any sign and
\* size), brought to sign and magnitude.
DegSum(whole, part) ==
    LET fl  == whole + part \div DegDen
        rem == part % DegDen
    IN  IF fl >= 0 THEN Deg(FALSE, fl, rem)
        ELSE IF rem = 0 THEN Deg(TRUE, -fl, 0)
        ELSE Deg(TRUE, -fl - 1, DegDen - rem)

Parts(whole, minutes, seconds) ==
    [whole |-> whole, minutes |-> minutes, seconds |-> seconds]

\* DegreesMinutesSeconds::from_angle: degrees.trunc() as i32,
\* (degrees.fract().abs() * 60.0).trunc() as i32, minutes.fract().abs() * 60.0
DegreesMinutesSeconds_from_angle(angle) ==
    LET minutes == 60 * angle.f
    IN  Parts(IF angle.neg THEN -angle.w ELSE angle.w,
              minutes \div DegDen,
              60 * (minutes % DegDen))

\* An as_angle that takes the seconds for sixtieths of a degree.
DegreesMinutesSeconds_as_angle_seconds_by_60(dms) ==
    DegSum(dms.whole, dms.minutes * (DegDen \div 60) + dms.seconds \div 60)

\* DegreesMinutesSeconds::as_angle:
\* Angle::from_degrees(degrees as f64 + minutes as f64 / 60.0 + seconds / 3600.0)
DegreesMinutesSeconds_as_angle(dms) ==
    DegSum(dms.whole, dms.minutes * (DegDen \div 60) + dms.seconds \div 3600)

\* A from_angle that leaves out the abs() of the minutes.
HoursMinutesSeconds_from_angle_signed_minutes(angle) ==
    LET r       == (angle.w % 15) * DegDen + angle.f
        minutes == 4 * r
    IN  Parts(IF angle.neg THEN -(angle.w \div 15) ELSE angle.w \div 15,
              IF angle.neg THEN -(minutes \div DegDen) ELSE minutes \div DegDen,
              60 * (minutes % DegDen))

\* HoursMinutesSeconds::from_angle, with hours = angle.as_degrees() / 15.0: the
\* fraction of an hour is r / (15 DegDen), and 60 times it is 4 r / DegDen.
HoursMinutesSeconds_from_angle(angle) ==
    LET r       == (angle.w % 15) * DegDen + angle.f
        minutes == 4 * r
    IN  Parts(IF angle.neg THEN -(angle.w \div 15) ELSE angle.w \div 15,
              minutes \div DegDen,
              60 * (minutes % DegDen))

\* HoursMinutesSeconds::as_angle:
\* Angle::from_degrees((hours + minutes / 60.0 + seconds / 3600.0) * 15.0)
HoursMinutesSeconds_as_angle(hms) ==
    DegSum(15 * hms.whole, hms.minutes * (DegDen \div 4) + hms.seconds \div 240)

\* f64::asin and f64::acos of x / 1000, for the arguments whose angle is a
\* whole number of degrees, and of any argument outside [-1, 1].
f64_asin(x) ==
    IF x < -1000 \/ x > 1000 THEN NaN
    ELSE CASE x = 0 -> Deg(FALSE, 0, 0)
           [] x = 500 -> Deg(FALSE, 30, 0) [] x = -500 -> Deg(TRUE, 30, 0)
           [] x = 1000 -> Deg(FALSE, 90, 0) [] x = -1000 -> Deg(TRUE, 90, 0)

f64_acos(x) ==
    IF x < -1000 \/ x > 1000 THEN NaN
    ELSE CASE x = 0 -> Deg(FALSE, 90, 0)
           [] x = 500 -> Deg(FALSE, 60, 0) [] x = -500 -> Deg(FALSE, 120, 0)
           [] x = 1000 -> Deg(FALSE, 0, 0) [] x = -1000 -> Deg(FALSE, 180, 0)

\* An asin that refuses an argument outside [-1, 1].
Angle_asin_checked(item) ==
    IF item < -1000 \/ item > 1000 THEN [panic |-> TRUE, angle |-> NaN]
    ELSE [panic |-> FALSE, angle |-> f64_asin(item)]

\* Angle::asin: Angle(item.asin())
Angle_asin(item) == [panic |-> FALSE, angle |-> f64_asin(item)]

\* Angle::acos: Angle(item.acos())
Angle_acos(item) == [panic |-> FALSE, angle |-> f64_acos(item)]

\* Angles the client builds: whole degrees around the multiples of 15 and of
\* 360 and those of the library's tests, with fractions of a half, of one
\* minute, of one second, of the tests' 0.647867, and just below one degree.
WholeSpan == 2

UnitWholes == {0, 1, 14, 15, 34, 295} \cup (359 .. (359 + WholeSpan))

UnitFractions ==
    { 0, DegDen \div 2, DegDen \div 60, DegDen \div 3600, 647867 * 9,
      DegDen - DegDen \div 3600, DegDen - 1 }

UnitAngles ==
    { Deg(neg, w, f) : neg \in BOOLEAN, w \in UnitWholes, f \in UnitFractions }
        \ { Deg(TRUE, 0, 0) }

\* Components the client puts into a DegreesMinutesSeconds or an
\* HoursMinutesSeconds: in range, negative and out of range.
ComponentWholes == {-25, -1, 0, 1, 7, 23, 24, 34, 360, 400}

ComponentMinutes == {-1, 0, 1, 45, 55, 59, 60, 90}

ComponentSeconds ==
    { s * DegDen : s \in {-1, 0, 1, 30, 60, 90} } \cup { 51 * (DegDen \div 2) }

ComponentParts ==
    { Parts(d, m, s) :
        d \in ComponentWholes, m \in ComponentMinutes, s \in ComponentSeconds }

\* Arguments of asin and acos, in thousandths: the ones with an angle of whole
\* degrees, and up to MaxExcess thousandths beyond 1 and -1.
MaxExcess == 2

TrigArgs ==
    {-1000, -500, 0, 500, 1000}
        \cup { 1000 + k : k \in 1..MaxExcess } \cup { -1000 - k : k \in 1..MaxExcess }

UnitCall(op, angle, parts, x, panic) ==
    [op |-> op, angle |-> angle, parts |-> parts, x |-> x, panic |-> panic]

NoParts == Parts(0, 0, 0)

InitUnits ==
    /\ \/ \E a \in UnitAngles : calls = << UnitCall("Angle", a, NoParts, 0, FALSE) >>
       \/ \E p \in ComponentParts :
            calls = << UnitCall("DegreesMinutesSeconds", NaN, p, 0, FALSE) >>
       \/ \E p \in ComponentParts :
            calls = << UnitCall("HoursMinutesSeconds", NaN, p, 0, FALSE) >>
       \/ \E x \in TrigArgs : calls = << UnitCall("f64", NaN, NoParts, x, FALSE) >>
    /\ WrapIdle
    /\ loc = NoLocation

HoldsAngle == Last.op \in {"Angle", "dms.as_angle", "hms.as_angle"}

\* angle.as_dms()
AsDms ==
    /\ HoldsAngle /\ CanCall
    /\ calls' = Append(calls,
          UnitCall("as_dms", NaN, DegreesMinutesSeconds_from_angle(Last.angle), 0, FALSE))

\* angle.as_hms()
AsHms ==
    /\ HoldsAngle /\ CanCall
    /\ calls' = Append(calls,
          UnitCall("as_hms", NaN, HoursMinutesSeconds_from_angle(Last.angle), 0, FALSE))

\* dms.as_angle(), which Angle::from_dms(dms) forwards to
DmsAsAngle ==
    /\ Last.op \in {"DegreesMinutesSeconds", "as_dms"} /\ CanCall
    /\ calls' = Append(calls,
          UnitCall("dms.as_angle", DegreesMinutesSeconds_as_angle(Last.parts),
                   NoParts, 0, FALSE))

\* hms.as_angle(), which Angle::from_hms(hms) forwards to
HmsAsAngle ==
    /\ Last.op \in {"HoursMinutesSeconds", "as_hms"} /\ CanCall
    /\ calls' = Append(calls,
          UnitCall("hms.as_angle", HoursMinutesSeconds_as_angle(Last.parts),
                   NoParts, 0, FALSE))

\* Angle::asin(item)
Asin ==
    /\ Last.op = "f64" /\ CanCall
    /\ LET r == Angle_asin(Last.x)
       IN  calls' = Append(calls, UnitCall("asin", r.angle, NoParts, Last.x, r.panic))

\* Angle::acos(item)
Acos ==
    /\ Last.op = "f64" /\ CanCall
    /\ LET r == Angle_acos(Last.x)
       IN  calls' = Append(calls, UnitCall("acos", r.angle, NoParts, Last.x, r.panic))

NextUnits ==
    \/ AsDms /\ UNCHANGED <<wrapVars, loc>>
    \/ AsHms /\ UNCHANGED <<wrapVars, loc>>
    \/ DmsAsAngle /\ UNCHANGED <<wrapVars, loc>>
    \/ HmsAsAngle /\ UNCHANGED <<wrapVars, loc>>
    \/ Asin /\ UNCHANGED <<wrapVars, loc>>
    \/ Acos /\ UNCHANGED <<wrapVars, loc>>

SpecUnits == InitUnits /\ [][NextUnits]_vars

(***************************************************************************)
(* coords.  The sine and cosine of every angle of this part are rational:  *)
(* an Angle is a whole-number triple s, c, h with s^2 + c^2 = h^2, h > 0,  *)
(* sine s / h and cosine c / h, and an f64 a fraction n / d in lowest      *)
(* terms.  On such values the products, sums and quotients of the two      *)
(* transforms are exact; what f64 rounding changes beyond the last digits  *)
(* is kept as a choice among outcomes: the tangent of a right angle, the   *)
(* arc sine of a computed 1 and the arc tangent of two rounding residues.  *)
(***************************************************************************)
RECURSIVE GCD(_, _)
GCD(a, b) ==
    LET m == IF a < 0 THEN -a ELSE a
        n == IF b < 0 THEN -b ELSE b
    IN  IF n = 0 THEN m ELSE GCD(n, m % n)

Rat(n, d) ==
    LET g == GCD(n, d)
        k == IF d < 0 THEN -g ELSE g
    IN  [n |-> n \div k, d |-> d \div k]

RatMul(x, y) ==
    LET a == Rat(x.n, y.d)
        b == Rat(y.n, x.d)
    IN  [n |-> a.n * b.n, d |-> a.d * b.d]

RatAdd(x, y) ==
    LET g == GCD(x.d, y.d)
    IN  Rat(x.n * (y.d \div g) + y.n * (x.d \div g), (x.d \div g) * y.d)

RatSub(x, y) == RatAdd(x, [n |-> -y.n, d |-> y.d])

RatSign(x) == IF x.n > 0 THEN 1 ELSE IF x.n < 0 THEN -1 ELSE 0

\* The whole square root of n, rounded down
RECURSIVE SqrtBetween(_, _, _)
SqrtBetween(n, lo, hi) ==
    IF lo = hi THEN lo
    ELSE LET mid == (lo + hi + 1) \div 2
         IN  IF mid * mid <= n THEN SqrtBetween(n, mid, hi)
             ELSE SqrtBetween(n, lo, mid - 1)

ISqrt(n) == SqrtBetween(n, 0, Min(n, 46340))

IsSquare(n) == n >= 0 /\ ISqrt(n) * ISqrt(n) = n

Ang(s, c, h) == [nan |-> FALSE, s |-> s, c |-> c, h |-> h]

NaNAngle == [nan |-> TRUE, s |-> 0, c |-> 0, h |-> 1]

\* Angle::sin and Angle::cos of an angle that is a number
Angle_sin(a) == Rat(a.s, a.h)

Angle_cos(a) == Rat(a.c, a.h)

\* An f64 that is either the fraction v or, with inf = 1 or -1, a number of
\* the order of 10^16 of that sign.
Finite(v) == [inf |-> 0, v |-> v]

Huge(sign) == [inf |-> sign, v |-> Rat(0, 1)]

\* Angle::tan.  The f64 nearest to a right angle is not the right angle, and
\* its tangent is finite and of the order of 10^16.
Angle_tan(a) ==
    IF a.c = 0 THEN Huge(IF a.s > 0 THEN 1 ELSE -1) ELSE Finite(Rat(a.s, a.c))

\* tan(..) * E::OBLIQUITY.sin()
TimesRat(e, r) ==
    IF e.inf = 0 THEN Finite(RatMul(e.v, r))
    ELSE IF r.n = 0 THEN Finite(Rat(0, 1)) ELSE Huge(e.inf * RatSign(r))

\* r + e and r - e, in which a number of the order of 10^16 absorbs r
RatPlus(r, e) == IF e.inf = 0 THEN Finite(RatAdd(r, e.v)) ELSE e

RatMinus(r, e) == IF e.inf = 0 THEN Finite(RatSub(r, e.v)) ELSE Huge(-e.inf)

\* The angle of the direction (x, y), for whole x and y not both zero whose
\* squares add up to a square
Direction(y, x) ==
    LET g == GCD(y, x)
    IN  Ang(y \div g, x \div g, ISqrt((y \div g) * (y \div g) + (x \div g) * (x \div g)))

\* The input angles: the quarter turns and the angles of the first
\* TripleCount right triangles with whole sides, in every quadrant.
TripleCount == 2

Triples == << <<3, 4, 5>>, <<5, 12, 13>>, <<8, 15, 17>>, <<7, 24, 25>> >>

CoordAngles ==
    { Ang(1, 0, 1), Ang(-1, 0, 1), Ang(0, 1, 1), Ang(0, -1, 1) }
      \cup { Ang(ss * Triples[k][i], sc * Triples[k][3 - i], Triples[k][3]) :
               k \in 1..Min(TripleCount, Len(Triples)), i \in {1, 2},
               ss \in {1, -1}, sc \in {1, -1} }

\* The angles left when both arguments of atan2 are residues of rounding, of
\* either sign and in any proportion: any direction.
ResidueAngles == CoordAngles

\* Angle::atan2(y, x): the set of the angles it can return.  The cosine x of
\* the transforms is never exactly zero in f64; where its exact value and
\* that of y are both zero, the two are residues.
Angle_atan2(y, x) ==
    IF y.inf # 0 THEN { Ang(y.inf, 0, 1) }
    ELSE IF y.v.n = 0 /\ x.n = 0 THEN ResidueAngles
    ELSE LET l == (y.v.d \div GCD(y.v.d, x.d)) * x.d
         IN  { Direction(y.v.n * (l \div y.v.d), x.n * (l \div x.d)) }

\* Angle::asin of a computed value z: the set of the angles it can return.
\* The f64 sum of two rounded products whose exact value is 1 is 1 or the
\* next f64 above it, of which asin is not a number.
Angle_asin_computed(z) ==
    IF z.n > z.d \/ -z.n > z.d THEN { NaNAngle }
    ELSE { Ang(z.n, ISqrt(z.d * z.d - z.n * z.n), z.d) }
            \cup (IF z.n = z.d \/ -z.n = z.d THEN { NaNAngle } ELSE { })

Epochs == {"J2000", "B1950"}

\* E::OBLIQUITY, stood on an angle with rational sine and cosine: 22.62
\* degrees for the 23.4393 degrees of J2000 and 28.07 degrees for the
\* 23.4458 degrees of B1950.  The transforms use nothing of the obliquity
\* but its sine and cosine.
OBLIQUITY(E) == IF E = "J2000" THEN Ang(5, 12, 13) ELSE Ang(8, 15, 17)

Equatorial(E, right_ascention, declination) ==
    [epoch |-> E, right_ascention |-> right_ascention, declination |-> declination]

Ecliptical(E, longitude, latitude) ==
    [epoch |-> E, longitude |-> longitude, latitude |-> latitude]

\* Equatorial::to_ecliptical: the set of the coordinates it can return
to_ecliptical(coord) ==
    IF coord.right_ascention.nan \/ coord.declination.nan
    THEN { Ecliptical(coord.epoch, NaNAngle, NaNAngle) }
    ELSE LET e  == OBLIQUITY(coord.epoch)
             ra == coord.right_ascention
             de == coord.declination
             y  == RatPlus(RatMul(Angle_sin(ra), Angle_cos(e)),
                           TimesRat(Angle_tan(de), Angle_sin(e)))
             z  == RatSub(RatMul(Angle_sin(de), Angle_cos(e)),
                          RatMul(RatMul(Angle_cos(de), Angle_sin(e)), Angle_sin(ra)))
         IN  { Ecliptical(coord.epoch, lon, lat) :
                 lon \in Angle_atan2(y, Angle_cos(ra)), lat \in Angle_asin_computed(z) }

\* Ecliptical::to_equatorial: the set of the coordinates it can return
to_equatorial(coord) ==
    IF coord.longitude.nan \/ coord.latitude.nan
    THEN { Equatorial(coord.epoch, NaNAngle, NaNAngle) }
    ELSE LET e   == OBLIQUITY(coord.epoch)
             lon == coord.longitude
             lat == coord.latitude
             y   == RatMinus(RatMul(Angle_sin(lon), Angle_cos(e)),
                             TimesRat(Angle_tan(lat), Angle_sin(e)))
             z   == RatAdd(RatMul(Angle_sin(lat), Angle_cos(e)),
                           RatMul(RatMul(Angle_cos(lat), Angle_sin(e)), Angle_sin(lon)))
         IN  { Equatorial(coord.epoch, ra, de) :
                 ra \in Angle_atan2(y, Angle_cos(lon)), de \in Angle_asin_computed(z) }

\* The sine of the ecliptic latitude of an equatorial coordinate
LatitudeSine(eq) ==
    LET e == OBLIQUITY(eq.epoch)
    IN  RatSub(RatMul(Angle_sin(eq.declination), Angle_cos(e)),
               RatMul(RatMul(Angle_cos(eq.declination), Angle_sin(e)),
                      Angle_sin(eq.right_ascention)))

\* The equatorial coordinates the client converts: declination from -90 to
\* 90 degrees, and a latitude whose cosine is rational as well.
EquatorialInputs ==
    { eq \in { Equatorial(E, ra, de) : E \in Epochs, ra \in CoordAngles,
                                        de \in { a \in CoordAngles : a.c >= 0 } } :
        LET z == LatitudeSine(eq) IN IsSquare(z.d * z.d - z.n * z.n) }

CoordCall(op, coord) == [op |-> op, coord |-> coord]

InitCoords ==
    /\ \E eq \in EquatorialInputs : calls = << CoordCall("Equatorial", eq) >>
    /\ WrapIdle
    /\ loc = NoLocation

\* equatorial.to_ecliptical()
ToEcliptical ==
    /\ Last.op \in {"Equatorial", "to_equatorial"} /\ CanCall
    /\ \E r \in to_ecliptical(Last.coord) :
          calls' = Append(calls, CoordCall("to_ecliptical", r))

\* ecliptical.to_equatorial()
ToEquatorial ==
    /\ Last.op = "to_ecliptical" /\ CanCall
    /\ \E r \in to_equatorial(Last.coord) :
          calls' = Append(calls, CoordCall("to_equatorial", r))

NextCoords ==
    \/ ToEcliptical /\ UNCHANGED <<wrapVars, loc>>
    \/ ToEquatorial /\ UNCHANGED <<wrapVars, loc>>

SpecCoords == InitCoords /\ [][NextCoords]_vars

(***************************************************************************)
(* angle::Angle::wrap in f64 arithmetic.  The angle, the limits and the    *)
(* range are f64 values in radians, -= and += round as f64 does, and one   *)
(* step of the machine is the assertion, the test of a loop, its body or   *)
(* the return.                                                             *)
(***************************************************************************)
\* The smallest positive value of the model, 2^-40.
FineStep == R(0, 0, 1)

\* Whole angles handed to wrap with limits some radians apart:
\* -F64Span..F64Span radians.
F64Span == 8

F64Angles == { IntR(k) : k \in (-F64Span)..F64Span }

F64Limits == { IntR(-3), Zero, IntR(3), IntR(6) }

\* An angle far from the limits
BigAngle == 2 ^ 14 + 1

\* Two limits whose difference is not an f64: -8 * 2^-40 and 2^14 - 2^-39.
\* The f64 difference is 2^14 + 8 * 2^-40, 2^-39 more than the exact one.
SkewLow == RNeg(R(0, 0, 8))

SkewHigh == R(2 ^ 14 - 1, Limb - 1, Limb - 2)

\* angle.wrap(low, high) with the limits some radians apart; with limits
\* 2^-40 apart for an angle between them or far from them; and with the
\* limits SkewLow and SkewHigh for angles at and next to the lower one.
F64WrapCalls ==
    { <<a, l, h>> : a \in F64Angles, l \in F64Limits, h \in F64Limits }
      \cup { <<a, Zero, FineStep>> :
               a \in { Zero, FineStep, IntR(BigAngle), IntR(-BigAngle) } }
      \cup { <<a, SkewLow, SkewHigh>> :
               a \in { RSub(SkewLow, FineStep), SkewLow, Zero, SkewHigh } }

InitWrapF64 ==
    /\ calls = << Call("none", NoDate, NoJD, -1, FALSE) >>
    /\ pc = "assert"
    /\ \E c \in F64WrapCalls :
          /\ angle0 = c[1] /\ self = c[1]
          /\ low_limit = c[2] /\ high_limit = c[3]
    /\ range = Zero
    /\ loc = NoLocation

\* assert!(high_limit > low_limit); let range = high_limit - low_limit;
WrapF64Assert ==
    /\ pc = "assert"
    /\ RLess(low_limit, high_limit)
    /\ range' = F64Sub(high_limit, low_limit)
    /\ pc' = "sub_loop"
    /\ UNCHANGED <<calls, self, low_limit, high_limit, angle0, loc>>

WrapF64Panic ==
    /\ pc = "assert"
    /\ ~RLess(low_limit, high_limit)
    /\ pc' = "panic"
    /\ UNCHANGED <<calls, self, low_limit, high_limit, range, angle0, loc>>

\* while self > *high_limit
WrapF64SubTest ==
    /\ pc = "sub_loop"
    /\ RLess(high_limit, self)
    /\ pc' = "sub_body"
    /\ UNCHANGED <<calls, self, low_limit, high_limit, range, angle0, loc>>

\* { self -= range; }
WrapF64SubBody ==
    /\ pc = "sub_body"
    /\ self' = F64Sub(self, range)
    /\ pc' = "sub_loop"
    /\ UNCHANGED <<calls, low_limit, high_limit, range, angle0, loc>>

WrapF64SubDone ==
    /\ pc = "sub_loop"
    /\ ~RLess(high_limit, self)
    /\ pc' = "add_loop"
    /\ UNCHANGED <<calls, self, low_limit, high_limit, range, angle0, loc>>

\* while self < *low_limit
WrapF64AddTest ==
    /\ pc = "add_loop"
    /\ RLess(self, low_limit)
    /\ pc' = "add_body"
    /\ UNCHANGED <<calls, self, low_limit, high_limit, range, angle0, loc>>

\* { self += range; }
WrapF64AddBody ==
    /\ pc = "add_body"
    /\ self' = F64Add(self, range)
    /\ pc' = "add_loop"
    /\ UNCHANGED <<calls, low_limit, high_limit, range, angle0, loc>>

WrapF64Return ==
    /\ pc = "add_loop"
    /\ ~RLess(self, low_limit)
    /\ pc' = "return"
    /\ UNCHANGED <<calls, self, low_limit, high_limit, range, angle0, loc>>

\* The client hands the angle that came back to wrap again, with the same
\* limits, and keeps the first result in calls.
WrapF64Again ==
    /\ pc = "return"
    /\ calls[1].op = "none"
    /\ calls' = << Call("wrap", NoDate, self, -1, FALSE) >>
    /\ angle0' = self
    /\ range' = Zero
    /\ pc' = "assert"
    /\ UNCHANGED <<self, low_limit, high_limit, loc>>

NextWrapF64 ==
    \/ WrapF64Assert
    \/ WrapF64Panic
    \/ WrapF64SubTest
    \/ WrapF64SubBody
    \/ WrapF64SubDone
    \/ WrapF64AddTest
    \/ WrapF64AddBody
    \/ WrapF64Return
    \/ WrapF64Again

\* The call runs on: every step that can be taken is taken.
SpecWrapF64 == InitWrapF64 /\ [][NextWrapF64]_vars /\ WF_vars(NextWrapF64)

(***************************************************************************)
(* The claims.                                                             *)
(***************************************************************************)

\* C1: JD::from of a negative f64 fails its assertion and yields no JD (it is
\* not clamped to zero); JD::from of a value >= 0, 0.0 included, yields a JD
\* holding that very value; so every JD the client ever holds is >= 0.
C1_NegativeJDRejected ==
    \A k \in 2..Len(calls) :
        /\ calls[k].op = "JD::from" =>
             IF RLess(calls[k - 1].jd, Zero)
             THEN calls[k].panic
             ELSE ~calls[k].panic /\ calls[k].jd = calls[k - 1].jd
        /\ (calls[k].op \in {"JD::from", "to_jd"} /\ ~calls[k].panic) =>
             RLeq(Zero, calls[k].jd)

\* JD::from(-1.0) was called and has failed.
C1_Witness ==
    /\ Len(calls) = 2 /\ Last.op = "JD::from"
    /\ calls[1].jd = IntR(-1) /\ Last.panic

C3_WrapBadLimitsPanics ==
    (high_limit <= low_limit /\ pc \notin {"idle", "assert"}) =>
        pc = "panic" /\ self = angle0

\* wrap was called with equal limits and has aborted.
C3_Witness == pc = "panic" /\ high_limit = low_limit /\ angle0 # 0

\* The client built a Date, converted it to a JD and that JD to a Date.
RoundTripDone ==
    /\ Len(calls) >= 3
    /\ calls[1].op = "Date" /\ calls[2].op = "to_jd" /\ calls[3].op = "from_jd"

\* The date that came back is the date that went in.
RoundTripSame ==
    /\ ~calls[3].panic
    /\ calls[3].date.cal = calls[1].date.cal
    /\ calls[3].date.year = calls[1].date.year
    /\ calls[3].date.month = calls[1].date.month
    /\ calls[3].date.day = calls[1].date.day
    /\ fraction_eq(calls[3].date.fraction, calls[1].date.fraction)

C4_OwnCalendar(d, jd) ==
    \/ d.cal = "Julian" /\ RLess(jd, R(2299068, Limb \div 2, 0))
    \/ d.cal = "Gregorian" /\ RLeq(R(2299160, Limb \div 2, 0), jd)

\* The Julian Day computed for d lies before the midnight that ends d's day:
\* the f64 sum has not rounded the fraction up to a whole day.
C4_SameDay(d, jd) ==
    RLess(jd, RAdd(to_jd_value([d EXCEPT !.fraction = Zero]), IntR(1)))

C5_TagAtChangeover ==
    \A k \in 2..Len(calls) :
        (calls[k].op = "from_jd" /\ ~calls[k].panic) =>
            (calls[k].date.cal = "Gregorian"
                <=> RLeq(R(2299160, Limb \div 2, 0), calls[k - 1].jd))

\* The value of Meeus' formula for the date d, formed without any rounding:
\* floor(365.25 (Y + 4716)) + floor(30.6001 (M + 1)) + day + fraction + B - 1524.5
\* with January and February as months 13 and 14 of the year before, and
\* B = 2 - A + floor(A / 4), A = floor(Y / 100), for a Gregorian date, else 0.
C6_Meeus(d) ==
    LET Y == IF d.month <= 2 THEN d.year - 1 ELSE d.year
        M == IF d.month <= 2 THEN d.month + 12 ELSE d.month
        A == Y \div 100
        B == IF d.cal = "Gregorian" THEN 2 - A + A \div 4 ELSE 0
        days == (36525 * (Y + 4716)) \div 100 + (306001 * (M + 1)) \div 10000
                + d.day + B
    IN  RSub(RAdd(IntR(days), d.fraction), R(1524, Limb \div 2, 0))

\* x and y differ by at most 2^-32, half the spacing of the f64 values
\* between 2^21 and 2^22.
C6_Near(x, y) ==
    LET d == RAbs(RSub(x, y)) IN d.i = 0 /\ d.hi = 0 /\ d.lo <= 2 ^ 8

\* C6: the JD that Date::to_jd returns is the value of Meeus' formula, to the
\* precision of an f64 and exactly when the fraction is a multiple of 2^-20;
\* Gregorian 2000-01-01.5 gives 2451545.0, Gregorian 1600-12-31.0 gives
\* 2305812.5, Julian 333-01-27.5 gives 1842713.0, Julian -4712-01-01.5 gives 0.0.
C6_ToJdFormula ==
    \A k \in 2..Len(calls) :
        (calls[k].op = "to_jd" /\ ~calls[k].panic) =>
            LET d == calls[k - 1].date
                jd == calls[k].jd
            IN  /\ C6_Near(jd, C6_Meeus(d))
                /\ d.fraction.lo = 0 => jd = C6_Meeus(d)
                /\ d = Date("Gregorian", 2000, 1, 1, Half) => jd = IntR(2451545)
                /\ d = Date("Gregorian", 1600, 12, 31, Zero)
                      => jd = R(2305812, Limb \div 2, 0)
                /\ d = Date("Julian", 333, 1, 27, Half) => jd = IntR(1842713)
                /\ d = Date("Julian", -4712, 1, 1, Half) => jd = Zero

\* to_jd of Julian 333-01-27.5 has returned 1842713.0.
C6_Witness ==
    /\ Len(calls) = 2 /\ Last.op = "to_jd"
    /\ calls[1].date = Date("Julian", 333, 1, 27, Half)
    /\ Last.jd = IntR(1842713)

\* C7: find_easter_by_year(y) is the Gregorian algorithm's date, tagged
\* Gregorian, for y >= 1583 and the Julian algorithm's date, tagged Julian, for
\* y <= 1582; the date has the year y and the fraction 0.0.
C7_EasterDispatch ==
    \A k \in 2..Len(calls) :
        calls[k].op = "find_easter_by_year" =>
            LET y == calls[k - 1].n
                r == calls[k]
            IN  /\ ~r.panic
                /\ r.date.year = y
                /\ r.date.fraction = Zero
                /\ y >= 1583 => /\ r.date.cal = "Gregorian"
                                /\ r.date = find_gregorian_easter(y).date
                /\ y <= 1582 => /\ r.date.cal = "Julian"
                                /\ r.date = find_julian_easter(y).date

\* Easter of 1583, the first Gregorian year, has been computed.
C7_Witness ==
    /\ Last.op = "find_easter_by_year" /\ calls[1].n = 1583
    /\ Last.date.cal = "Gregorian"

\* The Easter dates of the library's tests.
C8_Table ==
    { <<2024, "Gregorian", 3, 31>>, <<2025, "Gregorian", 4, 20>>,
      <<2023, "Gregorian", 4, 9>>,  <<2000, "Gregorian", 4, 23>>,
      <<1991, "Gregorian", 3, 31>>, <<1992, "Gregorian", 4, 19>>,
      <<1993, "Gregorian", 4, 11>>, <<1954, "Gregorian", 4, 18>>,
      <<1818, "Gregorian", 3, 22>>, <<2285, "Gregorian", 3, 22>>,
      <<1886, "Gregorian", 4, 25>>, <<2038, "Gregorian", 4, 25>>,
      <<179, "Julian", 4, 12>> }

\* C8: find_easter_by_year returns the tabulated date for each tabulated year.
C8_EasterTable ==
    \A k \in 2..Len(calls) :
        calls[k].op = "find_easter_by_year" =>
            \A t \in C8_Table :
                calls[k - 1].n = t[1] =>
                    /\ ~calls[k].panic
                    /\ calls[k].date = Date(t[2], t[1], t[3], t[4], Zero)

\* Easter of 2038 has been computed as April 25, the latest date there is.
C8_Witness ==
    /\ Last.op = "find_easter_by_year" /\ calls[1].n = 2038
    /\ Last.date = Date("Gregorian", 2038, 4, 25, Zero)

\* C9: for every year, find_easter_by_year returns, without a panic, a date
\* from March 22 to April 25.
C9_EasterAlwaysValid ==
    \A k \in 2..Len(calls) :
        calls[k].op = "find_easter_by_year" =>
            /\ ~calls[k].panic
            /\ \/ calls[k].date.month = 3 /\ calls[k].date.day \in 22..31
               \/ calls[k].date.month = 4 /\ calls[k].date.day \in 1..25

\* C10: the day of the week of a date does not depend on its fraction: it is
\* the day of the week of the same day at fraction 0.0, and Saturday for
\* Gregorian 2019-07-13.
C10_WeekdayIgnoresFraction ==
    \A k \in 2..Len(calls) :
        (calls[k].op = "get_day_of_week" /\ calls[k - 1].op = "Date") =>
            LET d  == calls[k - 1].date
                d0 == [d EXCEPT !.fraction = Zero]
            IN  ~get_day_of_week(d0).panic =>
                    /\ ~calls[k].panic
                    /\ calls[k].n = get_day_of_week(d0).dow
                    /\ (d.cal = "Gregorian" /\ d.year = 2019 /\ d.month = 7 /\ d.day = 13)
                          => calls[k].n = 6

\* C11: the location get_location returns has a longitude in [0, 360) degrees,
\* 360 degrees itself excluded, and a latitude in [-90, 90] degrees, the one a
\* whole multiple of 360 degrees and the other a whole multiple of 180 degrees
\* away from the sum of its series.
C11_LongitudeHalfOpen ==
    loc.stage = "done" =>
        /\ 0 <= loc.longitude /\ loc.longitude < 36
        /\ -9 <= loc.latitude /\ loc.latitude <= 9
        /\ (loc.longitude - loc.l) % 36 = 0
        /\ (loc.latitude - loc.b) % 18 = 0

\* The sum over the triples of one term-set: A cos(B + C tau) each.
C18_SetSum(set, tau) ==
    SumSeq([j \in 1..Len(set) |-> set[j][1] * cos4(set[j][2] + set[j][3] * tau)])

\* The series of a quantity: the sum over the powers p = 0..5 of tau^p times
\* the sum of the term-set at index p, a missing term-set counting for nothing.
C18_Series(terms, tau) ==
    LET T(p) == IF p + 1 <= Len(terms) THEN C18_SetSum(terms[p + 1], tau) ELSE 0
    IN  T(0) + tau * T(1) + tau * tau * T(2) + tau * tau * tau * T(3)
          + tau * tau * tau * tau * T(4) + tau * tau * tau * tau * tau * T(5)

\* The module that holds a planet's own tables.
C18_OwnModule ==
    [Mercury |-> "mercury", Venus |-> "venus", Earth |-> "earth", Mars |-> "mars",
     Jupiter |-> "jupiter", Saturn |-> "saturn", Uranus |-> "uranus",
     Neptune |-> "neptune"]

\* C18: get_location takes tau = (JD - 2451545.0) / 365250.0 and evaluates L, B
\* and R each as the series of the planet's own table, the term-set at index p
\* with the power p; the radius it returns is the sum of the R series as it
\* is, neither wrapped nor checked.
C18_SeriesOfOwnTable ==
    loc.stage \in {"longitude", "latitude", "done"} =>
        LET own == C18_OwnModule[loc.planet]
        IN  /\ 2451545 + 365250 * loc.tau = loc.t.i
            /\ loc.l = C18_Series(LTERMS(own), loc.tau)
            /\ loc.b = C18_Series(BTERMS(own), loc.tau)
            /\ loc.r = C18_Series(RTERMS(own), loc.tau)
            /\ loc.stage = "done" => loc.radius = loc.r

\* The Earth's location two millennia after J2000.0 has been returned, its
\* radius the sum 30 - 1 - 2 of the R series.
C18_Witness ==
    /\ loc.stage = "done" /\ loc.planet = "Earth" /\ loc.tau = 2
    /\ loc.radius = 27

\* An angle as the pair <<floor of its degrees, the rest in 1 / DegDen>>.
C12_Floor(angle) ==
    IF ~angle.neg THEN <<angle.w, angle.f>>
    ELSE IF angle.f = 0 THEN <<-angle.w, 0>>
    ELSE <<-angle.w - 1, DegDen - angle.f>>

\* d + m / 60 + s / 3600 degrees, formed in seconds of arc (3600 d + 60 m + s)
\* and then divided by 3600, as such a pair.
C12_DmsDegrees(p) ==
    LET arcsec == 3600 * p.whole + 60 * p.minutes + p.seconds \div DegDen
        rest   == p.seconds % DegDen
    IN  << arcsec \div 3600,
           (arcsec % 3600) * (DegDen \div 3600) + rest \div 3600 >>

\* 15 (h + m / 60 + s / 3600) degrees, formed in minutes of arc
\* (900 h + 15 m + s / 4) and then divided by 60, as such a pair.
C12_HmsDegrees(p) ==
    LET quarter == p.seconds \div 4
        arcmin  == 900 * p.whole + 15 * p.minutes + quarter \div DegDen
        rest    == quarter % DegDen
    IN  << arcmin \div 60,
           (arcmin % 60) * (DegDen \div 60) + rest \div 60 >>

\* The pair r is the pair v reduced modulo 360 degrees: a whole number of
\* turns away from it and less than one turn in size (either sign, as the
\* remainder is taken toward zero or downward).
C12_Reduced(r, v) ==
    /\ r[2] = v[2]
    /\ (r[1] - v[1]) % 360 = 0
    /\ r[1] < 360
    /\ r[1] > -360 \/ (r[1] = -360 /\ r[2] > 0)

\* C12 as stated: from_dms(d, m, s) is d + m / 60 + s / 3600 degrees reduced
\* modulo 360 degrees, and from_hms(h, m, s) is 15 (h + m / 60 + s / 3600)
\* degrees reduced modulo 360 degrees, whatever the components.
C12_ComposedModulo360 ==
    \A k \in 2..Len(calls) :
        /\ calls[k].op = "dms.as_angle" =>
             C12_Reduced(C12_Floor(calls[k].angle), C12_DmsDegrees(calls[k - 1].parts))
        /\ calls[k].op = "hms.as_angle" =>
             C12_Reduced(C12_Floor(calls[k].angle), C12_HmsDegrees(calls[k - 1].parts))

\* C12 as amended: from_dms(d, m, s) is d + m / 60 + s / 3600 degrees and
\* from_hms(h, m, s) is 15 (h + m / 60 + s / 3600) degrees, whatever the
\* components and with no reduction: 360 degrees and more, and negative
\* angles, come out as they are.
C12_Composed ==
    \A k \in 2..Len(calls) :
        /\ calls[k].op = "dms.as_angle" =>
             /\ ~calls[k].panic
             /\ C12_Floor(calls[k].angle) = C12_DmsDegrees(calls[k - 1].parts)
        /\ calls[k].op = "hms.as_angle" =>
             /\ ~calls[k].panic
             /\ C12_Floor(calls[k].angle) = C12_HmsDegrees(calls[k - 1].parts)

\* 360 degrees 90 minutes 30 seconds has been converted, to 361.5083.. degrees.
C12_Witness ==
    /\ Len(calls) = 2 /\ calls[1].op = "DegreesMinutesSeconds"
    /\ calls[1].parts = Parts(360, 90, 30 * DegDen)
    /\ Last.op = "dms.as_angle"
    /\ Last.angle = Deg(FALSE, 361, DegDen \div 2 + 30 * (DegDen \div 3600))

\* C13: an Angle taken apart and put together again is the same Angle:
\* a.as_dms().as_angle() = a and a.as_hms().as_angle() = a, for positive and
\* for negative a.
C13_PartsRoundTrip ==
    (/\ Len(calls) >= 3 /\ calls[1].op = "Angle"
     /\ \/ calls[2].op = "as_dms" /\ calls[3].op = "dms.as_angle"
        \/ calls[2].op = "as_hms" /\ calls[3].op = "hms.as_angle")
        => calls[3].angle = calls[1].angle

\* C14: as_dms and as_hms give the degrees, or the hours, cut toward zero and
\* with the sign of the angle, minutes in 0..59 and seconds in [0, 60); the
\* three magnitudes add up to the magnitude of the angle; and -295.647867
\* degrees is -19h 42m 35.488s, to 0.0001 s.
C14_SignOnWholePart ==
    \A k \in 2..Len(calls) :
        calls[k].op \in {"as_dms", "as_hms"} =>
            LET a   == calls[k - 1].angle
                p   == calls[k].parts
                mag == IF p.whole < 0 THEN -p.whole ELSE p.whole
            IN  /\ p.minutes \in 0..59
                /\ 0 <= p.seconds /\ p.seconds < 60 * DegDen
                /\ a.neg => p.whole <= 0
                /\ ~a.neg => p.whole >= 0
                /\ calls[k].op = "as_dms" =>
                     /\ mag = a.w
                     /\ p.minutes * (DegDen \div 60) + p.seconds \div 3600 = a.f
                /\ calls[k].op = "as_hms" =>
                     /\ mag = a.w \div 15
                     /\ p.minutes * (DegDen \div 4) + p.seconds \div 240
                           = (a.w % 15) * DegDen + a.f
                /\ (calls[k].op = "as_hms" /\ a = Deg(TRUE, 295, 647867 * 9)) =>
                     /\ p.whole = -19 /\ p.minutes = 42
                     /\ p.seconds - 35488 * (DegDen \div 1000) \in -900..900

\* -295.647867 degrees has been taken apart into hours, minutes and seconds.
C14_Witness ==
    /\ Len(calls) = 2 /\ calls[1].angle = Deg(TRUE, 295, 647867 * 9)
    /\ Last.op = "as_hms" /\ Last.parts.whole = -19

\* C19: asin and acos of an argument beyond 1 or -1 return, without failing,
\* an Angle that is not a number; within [-1, 1] they return the angle:
\* asin(1) = 90 degrees, asin(-1) = -90 degrees, acos(-1) = 180 degrees,
\* acos(1) = 0 degrees.
C19_DomainErrorIsNaN ==
    \A k \in 2..Len(calls) :
        calls[k].op \in {"asin", "acos"} =>
            LET x == calls[k - 1].x
                r == calls[k]
            IN  /\ ~r.panic
                /\ (x > 1000 \/ x < -1000) <=> r.angle.nan
                /\ (r.op = "asin" /\ x = 1000) => r.angle = Deg(FALSE, 90, 0)
                /\ (r.op = "asin" /\ x = -1000) => r.angle = Deg(TRUE, 90, 0)
                /\ (r.op = "acos" /\ x = -1000) => r.angle = Deg(FALSE, 180, 0)
                /\ (r.op = "acos" /\ x = 1000) => r.angle = Deg(FALSE, 0, 0)

\* asin(1.001) has returned, as not-a-number.
C19_Witness ==
    /\ Len(calls) = 2 /\ Last.op = "asin" /\ calls[1].x = 1001
    /\ ~Last.panic /\ Last.angle.nan

\* C15: Month::from of a number outside 1..12 and DayOfWeek::from of a number
\* outside 0..6 fail and return nothing; Month::from(n) for n in 1..12 is the
\* month with number n, DayOfWeek::from(n) for n in 0..6 the weekday with
\* number n, Sunday being 0 and Saturday 6.
C15_OutOfRangeIsFatal ==
    \A k \in 2..Len(calls) :
        LET n == calls[k - 1].n
            r == calls[k]
        IN  /\ r.op = "Month::from" =>
                 /\ r.panic <=> ~(1 <= n /\ n <= 12)
                 /\ ~r.panic => r.n = n
                 /\ r.panic => r.n = 0
            /\ r.op = "DayOfWeek::from" =>
                 /\ r.panic <=> ~(0 <= n /\ n <= 6)
                 /\ ~r.panic => r.n = n
                 /\ r.panic => r.n = -1
            /\ r.op = "get_day_of_week" => (r.panic \/ r.n \in 0..6)

\* Month::from(13) has failed.
C15_Witness ==
    /\ Len(calls) = 2 /\ calls[1].op = "i32" /\ calls[1].n = 13
    /\ Last.op = "Month::from" /\ Last.panic

\* C16: get_day_of_year is floor(275 m / 9) - k floor((m + 9) / 12) + d - 30
\* with k = 1 in a leap year and 2 otherwise, leap meaning year % 4 = 0 in the
\* Julian calendar and year % 4 = 0 but not year % 400 = 0 in the Gregorian;
\* Gregorian 1978-11-14 is day 318, Gregorian 1988-04-22 day 113, and every
\* January 1 day 1.
C16_Leap(dt) ==
    IF dt.cal = "Julian" THEN dt.year % 4 = 0
    ELSE dt.year % 4 = 0 /\ dt.year % 400 # 0

C16_DayOfYearFormula ==
    \A k \in 2..Len(calls) :
        calls[k].op = "get_day_of_year" =>
            LET dt == calls[k - 1].date
                m  == dt.month
                kk == IF C16_Leap(dt) THEN 1 ELSE 2
            IN  /\ ~calls[k].panic
                /\ calls[k].n = (275 * m) \div 9 - kk * ((m + 9) \div 12) + dt.day - 30
                /\ (dt.cal = "Gregorian" /\ dt.year = 1978 /\ m = 11 /\ dt.day = 14)
                      => calls[k].n = 318
                /\ (dt.cal = "Gregorian" /\ dt.year = 1988 /\ m = 4 /\ dt.day = 22)
                      => calls[k].n = 113
                /\ (m = 1 /\ dt.day = 1) => calls[k].n = 1

\* The day of the year of Gregorian 1900-03-01, a year that the rule of the
\* claim takes for a leap year, has been computed as 61.
C16_Witness ==
    /\ Len(calls) = 2 /\ Last.op = "get_day_of_year" /\ Last.n = 61
    /\ calls[1].date.cal = "Gregorian" /\ calls[1].date.year = 1900
    /\ calls[1].date.month = 3 /\ calls[1].date.day = 1

\* C17: find_gregorian_passover(y) is a Gregorian date of year y at fraction
\* 0.0: April 10 for 1990, April 6 for 2023, April 23 for 2024, April 13 for
\* 2025; a day count d > 31 is reported as April (d - 31), a day count
\* d <= 31 as March d.
C17_PassoverDate ==
    \A k \in 2..Len(calls) :
        calls[k].op = "find_gregorian_passover" =>
            LET y  == calls[k - 1].n
                dt == calls[k].date
                d  == passover_d(y)
            IN  /\ ~calls[k].panic
                /\ dt.cal = "Gregorian" /\ dt.year = y /\ dt.fraction = Zero
                /\ y = 1990 => (dt.month = 4 /\ dt.day = 10)
                /\ y = 2023 => (dt.month = 4 /\ dt.day = 6)
                /\ y = 2024 => (dt.month = 4 /\ dt.day = 23)
                /\ y = 2025 => (dt.month = 4 /\ dt.day = 13)
                /\ d > 31 => (dt.month = 4 /\ dt.day = d - 31)
                /\ d <= 31 => (dt.month = 3 /\ dt.day = d)

\* C20: for either epoch, converting an equatorial coordinate to the ecliptic
\* and the result back gives a coordinate of the same epoch with the right
\* ascension (modulo a full turn) and the declination it started from.
C20_RoundTrip ==
    \A k \in 3..Len(calls) :
        (/\ calls[k].op = "to_equatorial" /\ calls[k - 1].op = "to_ecliptical"
         /\ calls[k - 2].op \in {"Equatorial", "to_equatorial"})
            => /\ calls[k - 1].coord.epoch = calls[k - 2].coord.epoch
               /\ calls[k].coord = calls[k - 2].coord

\* C21: for every finite angle and limits low < high, the call of wrap comes
\* to an end: it returns (or, with limits that are not low < high, fails its
\* assertion) after finitely many passes of its two loops.
C21_WrapTerminates == <>(pc \in {"return", "panic"})

\* C30: an angle that lies in [low, high], either limit included, comes back
\* from wrap as it went in, without a pass of either loop; and wrapping what
\* wrap returned, with the same limits, returns it again.
C30_InRange == RLeq(low_limit, angle0) /\ RLeq(angle0, high_limit)

C30_WrapIdempotent ==
    /\ (C30_InRange /\ pc \notin {"assert", "panic"}) =>
          (self = angle0 /\ pc \notin {"sub_body", "add_body"})
    /\ (pc = "return" /\ calls[1].op = "wrap") => self = calls[1].jd

\* C22: for a date whose Julian Day is not negative, get_day_of_week returns
\* the weekday of index (J + 1.5) mod 7, J being the date's JD rounded to the
\* nearest whole number less 0.5 and Sunday being 0; the index is a whole
\* number in 0..6, so that DayOfWeek::from does not fail; Gregorian 1954-06-30
\* is a Wednesday.
C22_DayOfWeekIndex ==
    \A k \in 2..Len(calls) :
        (calls[k].op = "get_day_of_week" /\ ~to_jd(calls[k - 1].date).panic) =>
            LET d == calls[k - 1].date
                J == Round(to_jd(d).jd)
            IN  /\ ~calls[k].panic
                /\ calls[k].n \in 0..6
                /\ calls[k].n = (J + 1) % 7
                /\ (d.cal = "Gregorian" /\ d.year = 1954 /\ d.month = 6 /\ d.day = 30
                      /\ d.fraction = Zero) => calls[k].n = 3

\* Gregorian 1954-06-30 at 0h has been found a Wednesday.
C22_Witness ==
    /\ Len(calls) = 2 /\ Last.op = "get_day_of_week" /\ ~Last.panic /\ Last.n = 3
    /\ calls[1].date = Date("Gregorian", 1954, 6, 30, Zero)

\* C23: Julian Easter comes back after 532 years: for a year y with y >= 0
\* and y + 532 <= 1582, find_easter_by_year(y) and find_easter_by_year(y + 532)
\* have the same month and the same day of the month; 179, 711 and 1243 all
\* give April 12.
C23_JulianPeriod ==
    \A k \in 2..Len(calls) :
        (calls[k].op = "find_easter_by_year" /\ calls[k - 1].n >= 0
           /\ calls[k - 1].n + 532 <= 1582) =>
            LET y     == calls[k - 1].n
                later == find_easter_by_year(y + 532)
            IN  /\ ~calls[k].panic /\ ~later.panic
                /\ calls[k].date.month = later.date.month
                /\ calls[k].date.day = later.date.day
                /\ y \in {179, 711} =>
                      (calls[k].date.month = 4 /\ calls[k].date.day = 12)
                /\ y = 711 =>
                      (later.date.year = 1243 /\ later.date.month = 4
                         /\ later.date.day = 12)

\* Easter of 711 has been computed as April 12, as Easter of 1243 is.
C23_Witness ==
    /\ Len(calls) = 2 /\ Last.op = "find_easter_by_year" /\ calls[1].n = 711
    /\ Last.date.month = 4 /\ Last.date.day = 12
    /\ find_easter_by_year(1243).date = Date("Julian", 1243, 4, 12, Zero)

\* C25: the date find_easter_by_year returns is a Sunday: for every year from
\* 1 to 1582 (Julian) and every year from 1583 on (Gregorian), get_day_of_week
\* of that date is DayOfWeek::Sunday.
C25_EasterIsSunday ==
    \A k \in 3..Len(calls) :
        (calls[k].op = "get_day_of_week" /\ calls[k - 1].op = "find_easter_by_year"
           /\ calls[k - 2].n >= 1) =>
            /\ ~calls[k].panic
            /\ calls[k].n = 0
            /\ calls[k - 1].date.cal = (IF calls[k - 2].n >= 1583 THEN "Gregorian" ELSE "Julian")

\* Easter of a Julian year and of a Gregorian year have been found Sundays.
C25_Witness ==
    /\ Len(calls) = 3 /\ Last.op = "get_day_of_week" /\ ~Last.panic /\ Last.n = 0
    /\ calls[2].op = "find_easter_by_year" /\ calls[1].n = 1582
    /\ calls[2].date.cal = "Julian"

\* C29: to_jd of a date that precedes the epoch of the Julian Day count (noon
\* of Julian -4712-01-01), that is, whose computed day count is negative, such
\* as Julian -4712-01-01 at fraction 0.0, fails the assertion of JD::from and
\* returns no JD; of every date at or after the epoch it returns a JD >= 0.
C29_BeforeEpoch(d) ==
    IF d.cal = "Julian"
    THEN \/ d.year < -4712
         \/ d.year = -4712 /\ d.month = 1 /\ d.day = 1 /\ RLess(d.fraction, Half)
    ELSE \/ d.year < -4713
         \/ d.year = -4713 /\ d.month < 11
         \/ d.year = -4713 /\ d.month = 11 /\ d.day < 24
         \/ d.year = -4713 /\ d.month = 11 /\ d.day = 24 /\ RLess(d.fraction, Half)

C29_BeforeEpochPanics ==
    \A k \in 2..Len(calls) :
        (calls[k].op = "to_jd" /\ calls[k - 1].op = "Date") =>
            LET d == calls[k - 1].date
            IN  /\ calls[k].panic <=> RLess(to_jd_value(d), Zero)
                /\ C29_BeforeEpoch(d) => (calls[k].panic /\ calls[k].jd = NoJD)
                /\ ~C29_BeforeEpoch(d) => (~calls[k].panic /\ RLeq(Zero, calls[k].jd))

\* to_jd of Julian -4712-01-01 at 0h has failed.
C29_Witness ==
    /\ Len(calls) = 2 /\ Last.op = "to_jd" /\ Last.panic
    /\ calls[1].date = Date("Julian", -4712, 1, 1, Zero)

\* C27: for every JD j >= 0, Date::from_jd(j) completes without the failure
\* of Month::from and returns a well-formed date: a month 1..12, a day of the
\* month from 1 to 31 and not beyond the length of that month, and a fraction
\* in [0, 1).
C27_FromJdWellFormed ==
    \A k \in 2..Len(calls) :
        calls[k].op = "from_jd" =>
            /\ ~calls[k].panic
            /\ LET d == calls[k].date
               IN  /\ d.month \in 1..12
                   /\ d.day \in 1..31
                   /\ d.day <= MonthLen(d.cal, d.year, d.month)
                   /\ RLeq(Zero, d.fraction) /\ RLess(d.fraction, IntR(1))

\* C24: for every JD j >= 0, Date::from_jd(j).to_jd() is j again, to within
\* the tolerance of fraction_eq, on either side of the change of calendar
\* near JD 2299160.5.
C24_JdRoundTrip ==
    \A k \in 3..Len(calls) :
        (calls[k].op = "to_jd" /\ calls[k - 1].op = "from_jd") =>
            /\ ~calls[k].panic
            /\ fraction_eq(calls[k].jd, calls[k - 2].jd)

\* C26: get_day_of_year agrees with the Julian Days of the same calendar: for
\* a valid date d, Julian or Gregorian, of JD >= 0, d.get_day_of_year() is
\* to_jd(d at fraction 0) less to_jd(January 1 of the same year and calendar
\* at fraction 0) plus 1, in century years such as Gregorian 1900 and 2000 too.
C26_DayOfYearIsJdDifference ==
    \A k \in 2..Len(calls) :
        (calls[k].op = "get_day_of_year" /\ calls[k - 1].op = "Date") =>
            LET d    == calls[k - 1].date
                d0   == to_jd([d EXCEPT !.fraction = Zero])
                jan1 == to_jd(Date(d.cal, d.year, 1, 1, Zero))
            IN  (~d0.panic /\ ~jan1.panic) =>
                    /\ ~calls[k].panic
                    /\ IntR(calls[k].n) = RAdd(RSub(d0.jd, jan1.jd), IntR(1))

\* C28: the day of the week advances with the count of days: for every JD
\* j >= 0 the weekday of Date::from_jd(j + 1) is the weekday of
\* Date::from_jd(j) advanced by one, Sunday following Saturday.
C28_WeekdayAdvances ==
    \A k \in 3..Len(calls) :
        (calls[k].op = "get_day_of_week" /\ calls[k - 1].op = "from_jd") =>
            LET j        == calls[k - 2].jd
                tomorrow == from_jd(F64Add(j, IntR(1)))
            IN  /\ ~calls[k].panic
                /\ ~tomorrow.panic
                /\ ~get_day_of_week(tomorrow.date).panic
                /\ get_day_of_week(tomorrow.date).dow = (calls[k].n + 1) % 7

====
